---- MODULE Spec2Model ----
(***************************************************************************)
(* Model of org2opml.py: OrgParser reads the lines of an Org file, keeps   *)
(* the three metadata fields and the level-indexed node lists, and         *)
(* to_opml() writes the outline as an OPML element tree.                   *)
(*                                                                         *)
(* A string is a sequence of one-character strings.  A Node object is a    *)
(* record of `heap`, named by its index (the order of creation); the lists *)
(* of the program hold these indices, as the Python lists hold references. *)
(***************************************************************************)
EXTENDS Integers, Sequences, FiniteSets, TLC

VARIABLES
    content,    \* self.content: the lines of the file, as far as parse() has read
    title,      \* self.title
    author,     \* self.author
    root_name,  \* self.root_name
    nodes,      \* self.nodes: one list of nodes per level
    heap,       \* the Node objects created, in order of creation
    pc,         \* "parse", "parse_raised", "to_opml_raised" or "done"
    exc,        \* the exception that ended the run, "" for none
    opml_file   \* the file to_opml() wrote, NoFile before

vars == <<content, title, author, root_name, nodes, heap, pc, exc, opml_file>>

\* ------------------------------------------------------------------ bounds
\* The longest file read, in lines.
MaxLines == 4
\* The deepest headline a file holds, in stars.
MaxLevel == 3

\* ----------------------------------------------------------------- strings
\* What str.strip() removes and what \s matches.
Whitespace == {" ", "\t", "\n"}

TITLE == <<"T", "I", "T", "L", "E">>
AUTHOR == <<"A", "U", "T", "H", "O", "R">>
ROOT == <<"R", "O", "O", "T">>

Drop(s, n) == SubSeq(s, n + 1, Len(s))

\* str.startswith
startswith(s, p) == Len(p) <= Len(s) /\ SubSeq(s, 1, Len(p)) = p

\* The first index >= i of s that holds no whitespace (Len(s) + 1 if none).
RECURSIVE SkipSpace(_, _)
SkipSpace(s, i) ==
    IF i <= Len(s) /\ s[i] \in Whitespace THEN SkipSpace(s, i + 1) ELSE i

\* The last index <= i of s that holds no whitespace (0 if none).
RECURSIVE SkipSpaceBack(_, _)
SkipSpaceBack(s, i) ==
    IF i >= 1 /\ s[i] \in Whitespace THEN SkipSpaceBack(s, i - 1) ELSE i

\* str.strip()
strip(s) == SubSeq(s, SkipSpace(s, 1), SkipSpaceBack(s, Len(s)))

\* The first index >= i of s that holds no star.
RECURSIVE SkipStars(_, _)
SkipStars(s, i) ==
    IF i <= Len(s) /\ s[i] = "*" THEN SkipStars(s, i + 1) ELSE i

\* A failed match (None).
NoMatch == [ok |-> FALSE]

\* Variant: '[*]+\s*' in place of '[*]+\s+'.
NODE_RE_match_optional_space(line) ==
    LET j == SkipStars(line, 1)
        k == SkipSpace(line, j)
    IN  IF j > 1
        THEN [ok |-> TRUE, level |-> SubSeq(line, 1, j - 1), text |-> Drop(line, k - 1)]
        ELSE NoMatch

\* NODE_RE.match(line): '(?P<level>[*]+)\s+(?P<text>.*)' anchored at the start.
\* The groups are greedy and the classes disjoint, so the match is unique.
NODE_RE_match(line) ==
    LET j == SkipStars(line, 1)
        k == SkipSpace(line, j)
    IN  IF j > 1 /\ k > j
        THEN [ok |-> TRUE, level |-> SubSeq(line, 1, j - 1), text |-> Drop(line, k - 1)]
        ELSE NoMatch

\* 'KEY\s*:\s+(?P<value>.*)' tried at index i of line.
META_RE_at(key, line, i) ==
    LET j == SkipSpace(line, i + Len(key))
        k == SkipSpace(line, j + 1)
    IN  IF /\ i + Len(key) - 1 <= Len(line)
           /\ SubSeq(line, i, i + Len(key) - 1) = key
           /\ j <= Len(line)
           /\ line[j] = ":"
           /\ k > j + 1
        THEN [ok |-> TRUE, value |-> Drop(line, k - 1)]
        ELSE NoMatch

\* KEY_RE.search(line): the match at the leftmost index that has one.
META_RE_search(key, line) ==
    LET hits == {i \in 1..Len(line) : META_RE_at(key, line, i).ok}
    IN  IF hits = {} THEN NoMatch
        ELSE META_RE_at(key, line, CHOOSE i \in hits : \A h \in hits : i <= h)

\* str.count('*')
count_stars(s) == Cardinality({i \in 1..Len(s) : s[i] = "*"})

\* ------------------------------------------------------------------- input
Stars(n) == [i \in 1..n |-> "*"]

\* One headline text per level.
Text(n) == << <<"a", "b", "c", "d", "e">>[((n - 1) % 5) + 1] >>

\* The lines a file is made of, each as readlines() returns it.
LineSet ==
    {Stars(n) \o <<" ">> \o Text(n) \o <<"\n">> : n \in 1..MaxLevel}
    \cup
    { <<" ", "*", "\t", "x", " ", "y", " ", "\n">>,
      <<"*", "a", "\n">>,
      <<"#", "+">> \o TITLE \o <<":", " ", "t", "\n">>,
      <<"#", "+">> \o TITLE \o <<":", "u", "\n">>,
      <<"#", "+">> \o TITLE \o <<" ">> \o TITLE \o <<":", " ", "w", "\n">>,
      <<"#", "+">> \o AUTHOR \o <<" ", ":", " ", "v", "\n">>,
      <<"#", "+">> \o ROOT \o <<":", "\t", "r", "\n">>,
      <<"#", "+", "F", "O", "O", ":", " ", "q", "\n">>,
      <<"\n">> }

\* -------------------------------------------------------------- the parser
\* Node.__init__
Node(level, text) == [level |-> level, text |-> text, children |-> <<>>]

\* Node.add_child, on the node `parent` of the heap h.
add_child(h, parent, node) ==
    [h EXCEPT ![parent].children = Append(@, node)]

\* handle_meta: the fields after the line (the text after '#+') is handled.
handle_meta(meta, line) ==
    IF startswith(line, TITLE)
    THEN LET m == META_RE_search(TITLE, line)
         IN  IF m.ok THEN [meta EXCEPT !.title = m.value] ELSE meta
    ELSE IF startswith(line, AUTHOR)
    THEN LET m == META_RE_search(AUTHOR, line)
         IN  IF m.ok THEN [meta EXCEPT !.author = m.value] ELSE meta
    ELSE IF startswith(line, ROOT)
    THEN LET m == META_RE_search(ROOT, line)
         IN  IF m.ok THEN [meta EXCEPT !.root_name = m.value] ELSE meta
    ELSE meta

\* No node: the out-of-range index of `self.nodes[level - 2][-1]`.
NoNode == 0

\* Variant: the first node of the slot, [0] in place of [-1].
parent_lookup_first(ns, level) ==
    IF level - 1 <= Len(ns) /\ Len(ns[level - 1]) > 0
    THEN ns[level - 1][1]
    ELSE NoNode

\* Variant: the deepest slot there is stands in for a missing one.
parent_lookup_nearest(ns, level) ==
    IF Len(ns) = 0 THEN NoNode
    ELSE LET slot == IF level - 1 <= Len(ns) THEN level - 1 ELSE Len(ns)
         IN  ns[slot][Len(ns[slot])]

\* self.nodes[level - 2][-1], for level > 1: the last node of the slot of the
\* level above, NoNode where Python raises IndexError.
parent_lookup(ns, level) ==
    IF level - 1 <= Len(ns) /\ Len(ns[level - 1]) > 0
    THEN ns[level - 1][Len(ns[level - 1])]
    ELSE NoNode

\* Variant: self.nodes[-1] in place of self.nodes[level - 1].
slot_append_last(ns, level, node) ==
    IF Len(ns) > 0
    THEN [ns EXCEPT ![Len(ns)] = Append(@, node)]
    ELSE Append(ns, <<node>>)

\* Variant: insert(0, newnode) in place of append(newnode).
slot_append_front(ns, level, node) ==
    IF level <= Len(ns)
    THEN [ns EXCEPT ![level] = <<node>> \o @]
    ELSE Append(ns, <<node>>)

\* try: self.nodes[level - 1].append(newnode)
\* except IndexError: self.nodes.append([newnode])
slot_append(ns, level, node) ==
    IF level <= Len(ns)
    THEN [ns EXCEPT ![level] = Append(@, node)]
    ELSE Append(ns, <<node>>)

\* add_node: the lists, the heap and the exception raised ("" for none) after
\* the stripped line is handled.
add_node(ns, h, line) ==
    LET match == NODE_RE_match(line)
        level == count_stars(match.level)
        newnode == Len(h) + 1
        h1 == Append(h, Node(level, match.text))
    IN  IF ~match.ok
        THEN [nodes |-> ns, heap |-> h, exc |-> ""]
        ELSE IF level = 1
        THEN [nodes |-> slot_append(ns, level, newnode), heap |-> h1, exc |-> ""]
        ELSE LET parent == parent_lookup(ns, level)
             IN  IF parent = NoNode
                 THEN [nodes |-> ns, heap |-> h, exc |-> "IndexError"]
                 ELSE [nodes |-> slot_append(ns, level, newnode),
                       heap |-> add_child(h1, parent, newnode),
                       exc |-> ""]

\* One turn of the loop of parse(): the next line of the file.  `content`
\* holds the lines read so far; the file ends wherever to_opml starts.
parse ==
    /\ pc = "parse"
    /\ Len(content) < MaxLines
    /\ \E raw \in LineSet :
         LET line == strip(raw)
         IN  /\ content' = Append(content, raw)
             /\ IF startswith(line, <<"#", "+">>)
                THEN LET meta == handle_meta([title |-> title, author |-> author,
                                              root_name |-> root_name], Drop(line, 2))
                     IN  /\ title' = meta.title
                         /\ author' = meta.author
                         /\ root_name' = meta.root_name
                         /\ UNCHANGED <<nodes, heap, pc, exc>>
                ELSE IF startswith(line, <<"*">>)
                THEN LET r == add_node(nodes, heap, line)
                     IN  /\ nodes' = r.nodes
                         /\ heap' = r.heap
                         /\ exc' = r.exc
                         /\ pc' = IF r.exc = "" THEN "parse" ELSE "parse_raised"
                         /\ UNCHANGED <<title, author, root_name>>
                ELSE UNCHANGED <<title, author, root_name, nodes, heap, pc, exc>>
    /\ UNCHANGED opml_file

\* ---------------------------------------------------------- the serializer
\* No file written.
NoFile == [written |-> FALSE]

\* ET.SubElement(..., 'outline', attrib={'text': text}) with its children.
\* `node` names the Node the element was made for (NoNode for the top one).
Element(text, node, children) ==
    [text |-> text, node |-> node, children |-> children]

\* Variant: the children are emitted, their own children are not.
iterate_children_flat(h, node) ==
    [i \in 1..Len(h[node].children) |->
        Element(h[h[node].children[i]].text, h[node].children[i], <<>>)]

\* iterate_children(node, ol): the elements added under ol.
RECURSIVE iterate_children(_, _)
iterate_children(h, node) ==
    [i \in 1..Len(h[node].children) |->
        LET child == h[node].children[i]
        IN  Element(h[child].text, child, iterate_children(h, child))]

Flatten(ss) ==
    LET F[i \in 0..Len(ss)] == IF i = 0 THEN <<>> ELSE F[i - 1] \o ss[i]
    IN  F[Len(ss)]

\* The top outline element and the loop over self.nodes[0].
build_body(skip_root, name, ns, h) ==
    Element(name, NoNode,
        IF skip_root
        THEN Flatten([i \in 1..Len(ns[1]) |-> iterate_children(h, ns[1][i])])
        ELSE [i \in 1..Len(ns[1]) |->
                Element(h[ns[1][i]].text, ns[1][i], iterate_children(h, ns[1][i]))])

\* to_opml: the exception raised ("" for none) and the file written.
\* `len(self.nodes) == 1` counts the slots, not the roots, and the assignment
\* under it reads `.text` of self.nodes[0], a list: AttributeError.  So
\* skip_root is False wherever the function goes on; there the loop header
\* reads self.nodes[0], an IndexError when no headline was read.  Both are
\* raised before the file is opened.
to_opml_result(ns, h, t, a, name) ==
    IF Len(ns) = 1
    THEN [exc |-> "AttributeError", file |-> NoFile]
    ELSE LET skip_root == FALSE
         IN  IF Len(ns) = 0
             THEN [exc |-> "IndexError", file |-> NoFile]
             ELSE [exc |-> "",
                   file |-> [written |-> TRUE, title |-> t, ownername |-> a,
                             body |-> build_body(skip_root, name, ns, h)]]

to_opml ==
    /\ pc = "parse"
    /\ LET r == to_opml_result(nodes, heap, title, author, root_name)
       IN  /\ exc' = r.exc
           /\ opml_file' = r.file
           /\ pc' = IF r.exc = "" THEN "done" ELSE "to_opml_raised"
    /\ UNCHANGED <<content, title, author, root_name, nodes, heap>>

\* ------------------------------------------------------- the specification
Init ==
    /\ content = <<>>
    /\ title = <<>>
    /\ author = <<>>
    /\ root_name = <<>>
    /\ nodes = <<>>
    /\ heap = <<>>
    /\ pc = "parse"
    /\ exc = ""
    /\ opml_file = NoFile

Next == parse \/ to_opml

Spec == Init /\ [][Next]_vars

\* ------------------------------------------------- the input, as a document
\* The vocabulary of the properties below, stated on the lines themselves.

\* A headline: stars, then whitespace, then text, once the line is stripped.
HeadlineSplits(raw) ==
    LET s == strip(raw)
    IN  {km \in (1..Len(s)) \X (1..Len(s)) :
            /\ km[1] + km[2] < Len(s)
            /\ \A i \in 1..km[1] : s[i] = "*"
            /\ \A i \in (km[1] + 1)..(km[1] + km[2]) : s[i] \in Whitespace
            /\ s[km[1] + km[2] + 1] \notin Whitespace}

\* The level and the text of every line that is a headline.
HeadlineOf ==
    [raw \in LineSet |->
        IF HeadlineSplits(raw) = {} THEN NoMatch
        ELSE LET km == CHOOSE x \in HeadlineSplits(raw) : TRUE
             IN  [ok |-> TRUE, level |-> km[1],
                  text |-> Drop(strip(raw), km[1] + km[2])]]

IsHeadline(raw) == HeadlineOf[raw].ok

Headline(raw) == [level |-> HeadlineOf[raw].level, text |-> HeadlineOf[raw].text]

\* The headlines of the lines c, in order.
Headlines(c) ==
    LET hs == SelectSeq(c, IsHeadline)
    IN  [i \in 1..Len(hs) |-> Headline(hs[i])]

Levels(H) == [i \in 1..Len(H) |-> H[i].level]

\* The positions of the headlines of level L among the headlines H, in order.
AtLevel(H, L) == SelectSeq([k \in 1..Len(H) |-> k], LAMBDA k : H[k].level = L)

\* A metadata line recognized for `key`: '#+KEY' at the start and,
\* somewhere after the '#+', KEY, whitespace or none, ':', whitespace.
MetaForm(raw, key) ==
    LET s == strip(raw)
    IN  /\ startswith(s, <<"#", "+">> \o key)
        /\ \E i \in 3..Len(s), a \in 0..Len(s), b \in 1..Len(s) :
              /\ i + Len(key) + a + b <= Len(s)
              /\ SubSeq(s, i, i + Len(key) - 1) = key
              /\ \A j \in (i + Len(key))..(i + Len(key) + a - 1) : s[j] \in Whitespace
              /\ s[i + Len(key) + a] = ":"
              /\ \A j \in (i + Len(key) + a + 1)..(i + Len(key) + a + b) :
                    s[j] \in Whitespace

MetaKeyOf ==
    [raw \in LineSet |-> {key \in {TITLE, AUTHOR, ROOT} : MetaForm(raw, key)}]

IsMeta(raw, key) == key \in MetaKeyOf[raw]

\* A line that is neither.
IsIgnored(raw) ==
    /\ ~IsHeadline(raw)
    /\ \A key \in {TITLE, AUTHOR, ROOT} : ~IsMeta(raw, key)

\* The slot of level L, empty where the list has none.
Slot(L) == IF L <= Len(nodes) THEN nodes[L] ELSE <<>>

\* The number of outline elements of an element tree.
RECURSIVE CountOutlines(_)
CountOutlines(e) ==
    LET F[i \in 0..Len(e.children)] ==
            IF i = 0 THEN 0 ELSE F[i - 1] + CountOutlines(e.children[i])
    IN  1 + F[Len(e.children)]

\* The nodes the elements under e were made for, in the order of emission.
RECURSIVE Emitted(_)
Emitted(e) ==
    Flatten([i \in 1..Len(e.children) |->
                <<e.children[i].node>> \o Emitted(e.children[i])])

\* Node n as an outline element, its children nested in document order.
RECURSIVE Outline(_)
Outline(n) ==
    [text |-> heap[n].text,
     children |-> [i \in 1..Len(heap[n].children) |-> Outline(heap[n].children[i])]]

\* An element tree without the names of the nodes.
RECURSIVE Plain(_)
Plain(e) ==
    [text |-> e.text, children |-> [i \in 1..Len(e.children) |-> Plain(e.children[i])]]

EachOnce(seq, S) ==
    /\ Len(seq) = Cardinality(S)
    /\ {seq[i] : i \in 1..Len(seq)} = S

OneRoot == Len(nodes) >= 1 /\ Len(nodes[1]) = 1

ParseRaised == pc = "parse_raised"

\* -------------------------------------------------------------- properties

\* C1: while parse() has not raised, the k-th node created is the k-th
\* headline read (its level, its text), and for every level L the slot
\* nodes[L-1] holds exactly the nodes of the level-L headlines read so far, in
\* input order; so nodes[0] holds one node per level-1 headline, in order.
C1_SlotsHoldLevels ==
    ~ParseRaised =>
        LET H == Headlines(content)
        IN  /\ Len(heap) = Len(H)
            /\ \A k \in 1..Len(H) :
                  heap[k].level = H[k].level /\ heap[k].text = H[k].text
            /\ \A L \in 1..(Len(nodes) + MaxLevel) : Slot(L) = AtLevel(H, L)

C1_Witness ==
    /\ pc = "parse"
    /\ Len(nodes) >= 2
    /\ Len(nodes[1]) >= 2
    /\ Len(nodes[2]) >= 1
    /\ Len(content) > Len(heap)

\* C2: while parse() has not raised, the number of children of every node n
\* is the number of headlines of level n.level + 1 that come after n's headline
\* and before the first later headline of level <= n.level.
C2_ChildrenCount ==
    ~ParseRaised =>
        LET H == Headlines(content)
        IN  \A n \in 1..Len(heap) :
              Len(heap[n].children) =
                Cardinality({j \in (n + 1)..Len(H) :
                    /\ H[j].level = H[n].level + 1
                    /\ \A i \in (n + 1)..(j - 1) : H[i].level > H[n].level})

\* C3: once to_opml() has run on a forest of exactly one root, it has
\* completed, and the top outline element of the body carries the text of the
\* root and holds the children of the root as its child elements, in order.
C3_SingleRootFlattened ==
    (pc \in {"done", "to_opml_raised"} /\ OneRoot) =>
        /\ pc = "done"
        /\ Plain(opml_file.body) = Outline(nodes[1][1])

\* C4: once to_opml() has run on a forest that has not exactly one root, it
\* has completed, and the top outline element of the body carries root_name
\* and holds one child element per root, in document order.
C4_WrapperHoldsRoots ==
    (pc \in {"done", "to_opml_raised"} /\ ~OneRoot) =>
        /\ pc = "done"
        /\ Plain(opml_file.body) =
              [text |-> root_name,
               children |-> [i \in 1..Len(Slot(1)) |-> Outline(Slot(1)[i])]]

\* C5: a headline of level L > 1 read when no headline of level L-1 has been
\* read (or when L is more than one above every level read so far) is the last
\* line parse() handles: parse() has raised, the node is not attached, to_opml()
\* cannot run and no file is written.
C5_NoParentRaises ==
    \A k \in 1..Len(content) :
        LET before == Levels(Headlines(SubSeq(content, 1, k - 1)))
            seen == {before[i] : i \in 1..Len(before)}
            L == Headline(content[k]).level
        IN  ( /\ IsHeadline(content[k])
              /\ L > 1
              /\ \/ L - 1 \notin seen
                 \/ \A l \in seen : L > l + 1 )
            => /\ k = Len(content)
               /\ ParseRaised
               /\ exc = "IndexError"
               /\ Len(heap) = Len(before)
               /\ \A L2 \in 1..(Len(nodes) + MaxLevel) : Len(Slot(L2)) =
                     Cardinality({i \in 1..Len(before) : before[i] = L2})
               /\ opml_file = NoFile
               /\ ~ENABLED to_opml

C5_Witness ==
    /\ ParseRaised
    /\ Len(content) >= 2
    /\ IsHeadline(content[Len(content)])
    /\ Headline(content[Len(content)]).level = 3
    /\ Len(heap) >= 1
    /\ Len(nodes) = 1

\* C6: a document to_opml() has written holds one outline element per node
\* and one more, every node emitted exactly once; and the loop over the roots
\* in skip-root mode, on a forest of one root, makes one element per node: the
\* top one for the root, and one for every other node.
C6_OutlineCount ==
    /\ pc = "done" =>
          /\ CountOutlines(opml_file.body) = Len(heap) + 1
          /\ EachOnce(Emitted(opml_file.body), 1..Len(heap))
    /\ OneRoot =>
          LET body == build_body(TRUE, heap[nodes[1][1]].text, nodes, heap)
          IN  /\ CountOutlines(body) = Len(heap)
              /\ EachOnce(Emitted(body), (1..Len(heap)) \ {nodes[1][1]})

C6_Witness ==
    /\ pc = "done"
    /\ OneRoot
    /\ Len(nodes) >= 3
    /\ Len(heap) >= 4

\* The value of a line of the form '#+KEY', optional whitespace, ':', optional
\* whitespace, value.
ClaimedValue(raw, key) ==
    LET s == strip(raw)
        j == SkipSpace(s, 3 + Len(key))
    IN  IF startswith(s, <<"#", "+">> \o key) /\ j <= Len(s) /\ s[j] = ":"
        THEN [ok |-> TRUE, value |-> Drop(s, SkipSpace(s, j + 1) - 1)]
        ELSE NoMatch

LastClaimedValue(c, key) ==
    LET hits == {i \in 1..Len(c) : ClaimedValue(c[i], key).ok}
    IN  IF hits = {} THEN <<>>
        ELSE ClaimedValue(c[CHOOSE i \in hits : \A h \in hits : h <= i], key).value

\* C7: while parse() has not raised, each of title, author and root_name is
\* the value of the last line read of the form '#+KEY', optional whitespace,
\* ':', optional whitespace, value, and is empty if there was none.
C7_LastMetadataWins ==
    ~ParseRaised =>
        /\ title = LastClaimedValue(content, TITLE)
        /\ author = LastClaimedValue(content, AUTHOR)
        /\ root_name = LastClaimedValue(content, ROOT)

Occurrences(c) ==
    {ni \in (1..Len(heap)) \X (1..Len(heap)) :
        ni[2] <= Len(heap[ni[1]].children) /\ heap[ni[1]].children[ni[2]] = c}

ParentOf(c) == (CHOOSE ni \in Occurrences(c) : TRUE)[1]

RECURSIVE RootOf(_)
RootOf(c) == IF heap[c].level = 1 THEN c ELSE RootOf(ParentOf(c))

\* C9: the structure is a forest in every state: a child is one level below
\* its parent, a node of level > 1 is in exactly one children list, once, a
\* node of level 1 is in none, and following parents from any node leads
\* through every level above it to exactly one entry of nodes[0].
C9_Forest ==
    /\ \A n \in 1..Len(heap) : \A i \in 1..Len(heap[n].children) :
          /\ heap[n].children[i] \in 1..Len(heap)
          /\ heap[heap[n].children[i]].level = heap[n].level + 1
    /\ \A c \in 1..Len(heap) :
          /\ heap[c].level >= 1
          /\ Cardinality(Occurrences(c)) = IF heap[c].level > 1 THEN 1 ELSE 0
    /\ \A c \in 1..Len(heap) :
          Cardinality({i \in 1..Len(Slot(1)) : nodes[1][i] = RootOf(c)}) = 1

C9_Witness ==
    /\ Len(nodes) >= 1
    /\ Len(nodes[1]) >= 2
    /\ \E c \in 1..Len(heap) : heap[c].level = 3 /\ RootOf(c) = nodes[1][1]

\* The headlines start at level 1 and never go more than one level deeper
\* than the headline before.
Regular(H) ==
    /\ Len(H) > 0 => H[1].level = 1
    /\ \A i \in 2..Len(H) : H[i].level <= H[i - 1].level + 1

\* C10: when the first headline read has level 1 and every headline is at
\* most one level below the one before it, parse() has not raised and the
\* elements to_opml's loops would emit follow the headlines in input order.
C10_PreOrderIsInputOrder ==
    LET H == Headlines(content)
    IN  Regular(H) =>
          /\ ~ParseRaised
          /\ Len(heap) = Len(H)
          /\ Len(H) > 0 =>
                Emitted(build_body(FALSE, root_name, nodes, heap)) =
                    [k \in 1..Len(H) |-> k]

C10_Witness ==
    /\ pc = "parse"
    /\ Regular(Headlines(content))
    /\ Levels(Headlines(content)) = <<1, 2, 1, 2>>

====
